---- MODULE Spec2Model ----
(***************************************************************************)
(* DS.ManyArray (packages/ember-data/lib/system/record_arrays/             *)
(* many_array.js): the has-many side of a one-to-many association and the  *)
(* OneToManyLink protocol that keeps each child's belongs-to field in step *)
(* with the arrays' contents.                                              *)
(*                                                                         *)
(* One structural edit is the call chain                                   *)
(*   replaceContent -> arrayContentWillChange -> base splice ->            *)
(*   arrayContentDidChange (mark, forEach sync, clear)                     *)
(* and `pc` is the position of the single thread of control in it.        *)
(***************************************************************************)
EXTENDS Integers, Sequences, FiniteSets, TLC

\* Bounds of the model.
MaxContent == 2
MaxAdded == 2

Null == "null"
Undefined == "undefined"

Records == {"c1", "c2", "x1"}
Owners == {"P1", "P2"}
Arrays == {"R1", "R2"}

\* The `owner` property of each ManyArray.
owner == [a \in Arrays |-> IF a = "R1" THEN "P1" ELSE "P2"]

\* The `name` property: the has-many field of the owner the array stands for.
name == "comments"

\* get(parent, hasManyName): the ManyArray of a parent record.
ManyArrayOf(p) == IF p = "P1" THEN "R1" ELSE "R2"

\* record.constructor
constructor == [r \in Records |-> IF r = "x1" THEN "Tag" ELSE "Comment"]

\* record.get('clientId')
clientId == [r \in Records |-> CASE r = "c1" -> 1 [] r = "c2" -> 2 [] OTHER -> 3]

\* The record a client id stands for (RecordArray's objectAt resolves it).
RecordFor(id) == CHOOSE r \in Records : clientId[r] = id

VARIABLES
  content,      \* content[a]: the array of client ids of ManyArray a
  inverse,      \* inverse[r]: the belongs-to field of record r
  link,         \* link[r]: the OneToManyLink of record r (NoLink: none exists)
  linksToSync,  \* linksToSync[a]: the OrderedSet _linksToSync (insertion order);
                \* the field is allocated when initted[a] becomes true
  initted,      \* initted[a]: _initted
  type,         \* the `type` property of the arrays (Undefined: no constraint)
  store,        \* the records the store has created
  pc,           \* position of the thread of control
  call,         \* the running call: operation, receiver and arguments
  before,       \* content at the entry of the running call
  cursor,       \* position of _linksToSync.forEach
  changing,     \* the record whose belongs-to field is being assigned, or Null
  trace         \* the steps the running call has taken so far

vars == <<content, inverse, link, linksToSync, initted, type, store, pc, call,
          before, cursor, changing, trace>>

Range(s) == {s[i] : i \in 1..Len(s)}

\* All sequences over S of length at most n.
SeqsUpTo(S, n) == UNION {[1..k -> S] : k \in 0..n}

NoLink == [oldParent |-> Undefined, newParent |-> Undefined, hasManyName |-> Undefined]

NoCall == [op |-> "none", array |-> "R1", index |-> 0, removed |-> 0,
           added |-> <<>>, ids |-> <<>>, record |-> Null,
           result |-> Undefined, sets |-> 0, observed |-> Null]

----------------------------------------------------------------------------
(* Array primitives of the base collection *)

\* Array splice: replace `removed` elements from 0-based `index` by `added`.
Splice(s, index, removed, added) ==
  SubSeq(s, 1, index) \o added \o SubSeq(s, index + removed + 1, Len(s))

\* content.removeObject(id): removes every occurrence.
RemoveObject(s, id) == SelectSeq(s, LAMBDA x : x # id)

\* Mutant: the id is appended whether included or not (pushObject).
AddObjectPushed(s, id) == Append(s, id)

\* content.addObject(id): appends unless already included.
AddObject(s, id) == IF id \in Range(s) THEN s ELSE Append(s, id)

\* Mutant: the set is a plain list, so a link added twice is in it twice.
OrderedSetAddAgain(q, r) == Append(q, r)

\* Mutant: the link is never put in the set.
OrderedSetAddDropped(q, r) == q

\* Ember.OrderedSet add: insertion order, no duplicates.
OrderedSetAdd(q, r) == IF r \in Range(q) THEN q ELSE Append(q, r)

\* Mutant: clear leaves the set as it is.
OrderedSetClearKept(q) == q

\* Ember.OrderedSet clear.
OrderedSetClear(q) == <<>>

\* this.objectAt(i) of ManyArray a on content c (0-based).
objectAt(c, a, i) == RecordFor(c[a][i + 1])

----------------------------------------------------------------------------
(* many_array.js *)

\* Mutant: the assertion accepts every record (a build without assertions).
TypeAcceptedAlways(r) == TRUE

\* The assertion of replaceContent on one added record.
TypeAccepted(r) == type = Undefined \/ type = constructor[r]

\* added.map(...) of replaceContent: the client ids of the added records.
MapClientIds(added) == [i \in 1..Len(added) |-> clientId[added[i]]]

\* Mutant: the departing record's link is given the owner as its new parent.
WillChangeTouchNewOwner(l, o) ==
  [l EXCEPT !.hasManyName = name,
            !.oldParent = IF l.oldParent = Undefined THEN o ELSE l.oldParent,
            !.newParent = o]

\* Mutant: the departing record's link gets the owner as its old parent even
\* when it already has one.
WillChangeTouchOverwrite(l, o) ==
  [l EXCEPT !.hasManyName = name, !.oldParent = o, !.newParent = Null]

\* The touch of arrayContentWillChange on the link of one removed record.
WillChangeTouch(l, o) ==
  [l EXCEPT !.hasManyName = name,
            !.oldParent = IF l.oldParent = Undefined THEN o ELSE l.oldParent,
            !.newParent = Null]

\* Mutant: the arrival leaves a newParent the link already has.
DidChangeTouchKeeps(l, o) ==
  [l EXCEPT !.hasManyName = name,
            !.newParent = IF l.newParent = Undefined THEN o ELSE l.newParent]

\* The touch of arrayContentDidChange on the link of one added record.
DidChangeTouch(l, o) ==
  [l EXCEPT !.hasManyName = name, !.newParent = o]

\* The for loop of arrayContentWillChange over i in [i, last].
RECURSIVE WillChangeLoop(_, _, _, _, _)
WillChangeLoop(i, last, a, lk, q) ==
  IF i >= last THEN [link |-> lk, queue |-> q]
  ELSE LET record == objectAt(content, a, i)
       IN WillChangeLoop(i + 1, last, a,
                         [lk EXCEPT ![record] = WillChangeTouch(lk[record], owner[a])],
                         OrderedSetAdd(q, record))

\* The for loop of arrayContentDidChange over i in [i, last].
RECURSIVE DidChangeLoop(_, _, _, _, _)
DidChangeLoop(i, last, a, lk, q) ==
  IF i >= last THEN [link |-> lk, queue |-> q]
  ELSE LET record == objectAt(content, a, i)
       IN DidChangeLoop(i + 1, last, a,
                        [lk EXCEPT ![record] = DidChangeTouch(lk[record], owner[a])],
                        OrderedSetAdd(q, record))

\* The fields the calls below read and write, as one value.
State == [content |-> content, inverse |-> inverse, link |-> link,
          linksToSync |-> linksToSync]

\* Mutant: removeFromContent goes through the array's own removeObject, so the
\* hooks run: the record's link is touched and queued.
removeFromContentViaHooks(s, a, r) ==
  [s EXCEPT !.content[a] = RemoveObject(s.content[a], clientId[r]),
            !.link[r] = [s.link[r] EXCEPT !.hasManyName = name, !.newParent = Null],
            !.linksToSync[a] = OrderedSetAdd(s.linksToSync[a], r)]

\* Mutant: removeFromContent leaves the content as it is.
removeFromContentNothing(s, a, r) == s

\* removeFromContent(record) on ManyArray a in state s: content.removeObject.
removeFromContent(s, a, r) ==
  [s EXCEPT !.content[a] = RemoveObject(s.content[a], clientId[r])]

\* addToContent(record) on ManyArray a in state s: content.addObject.
addToContent(s, a, r) ==
  [s EXCEPT !.content[a] = AddObject(s.content[a], clientId[r])]

\* Mutant: the created record is inserted in front (unshiftObject).
pushObjectIndexFront(c) == 0

\* pushObject(record) inserts at the end: replaceContent(length, 0, [record]).
pushObjectIndex(c) == Len(c)

\* DS.inverseNameFor(record, owner.constructor, 'belongsTo'): App.Comment
\* declares post: DS.belongsTo('App.Post'); the other type declares none.
inverseNameFor(r) == IF constructor[r] = "Comment" THEN "post" ELSE Null

\* Mutant: assignInverse returns the value the field has after the call.
assignInverseReturnsNew(s, a, r) ==
  LET inverseName == inverseNameFor(r)
      currentInverse == IF inverseName # Null THEN s.inverse[r] ELSE Undefined
      written == inverseName # Null /\ currentInverse # owner[a]
  IN [state |-> IF written THEN [s EXCEPT !.inverse[r] = owner[a]] ELSE s,
      result |-> IF inverseName # Null THEN owner[a] ELSE Undefined,
      sets |-> IF written THEN 1 ELSE 0]

\* assignInverse(record) on ManyArray a in state s: the state after it, the
\* value it returns and the number of set calls it made.
assignInverse(s, a, r) ==
  LET inverseName == inverseNameFor(r)
      currentInverse == IF inverseName # Null THEN s.inverse[r] ELSE Undefined
      written == inverseName # Null /\ currentInverse # owner[a]
  IN [state |-> IF written THEN [s EXCEPT !.inverse[r] = owner[a]] ELSE s,
      result |-> currentInverse,
      sets |-> IF written THEN 1 ELSE 0]

\* Mutant: removeInverse clears the field whatever parent it names.
removeInverseAlways(s, a, r) ==
  LET inverseName == inverseNameFor(r)
      written == inverseName # Null
  IN [state |-> IF written THEN [s EXCEPT !.inverse[r] = Null] ELSE s,
      result |-> Undefined,
      sets |-> IF written THEN 1 ELSE 0]

\* removeInverse(record) on ManyArray a in state s, in the same form.
removeInverse(s, a, r) ==
  LET inverseName == inverseNameFor(r)
      written == inverseName # Null /\ s.inverse[r] = owner[a]
  IN [state |-> IF written THEN [s EXCEPT !.inverse[r] = Null] ELSE s,
      result |-> Undefined,
      sets |-> IF written THEN 1 ELSE 0]

----------------------------------------------------------------------------
(* DS.OneToManyLink: sync *)

\* link.sync() for the link of record r in state s: the old parent (looked up
\* in the belongs-to field when the link has none) loses the child, the new
\* parent gains it, the belongs-to field is set, and the link is discarded.
Sync(r, s) ==
  LET l == s.link[r]
      oldParent == IF l.oldParent = Undefined THEN s.inverse[r] ELSE l.oldParent
      newParent == l.newParent
      s1 == IF oldParent # Null /\ oldParent # newParent
            THEN removeFromContent(s, ManyArrayOf(oldParent), r)
            ELSE s
      s2 == IF newParent # Null
            THEN addToContent(s1, ManyArrayOf(newParent), r)
            ELSE s1
  IN [s2 EXCEPT !.inverse[r] = newParent, !.link[r] = NoLink]

\* this._linksToSync.forEach(sync) over the links in the order q, from state s.
RECURSIVE forEach(_, _)
forEach(q, s) == IF q = <<>> THEN s ELSE forEach(Tail(q), Sync(Head(q), s))

\* pushObject(record) on ManyArray b run to its end from state s: nothing is
\* removed, the id is spliced in at the end, arrayContentDidChange marks the
\* link, reconciles the links of b and clears them.
pushObject(s, b, r) ==
  LET s1 == [s EXCEPT !.content[b] = Splice(@, pushObjectIndex(@), 0, MapClientIds(<<r>>))]
      s2 == [s1 EXCEPT !.link[r] = DidChangeTouch(@, owner[b]),
                       !.linksToSync[b] = OrderedSetAdd(@, r)]
      s3 == forEach(s2.linksToSync[b], s2)
  IN [s3 EXCEPT !.linksToSync[b] = OrderedSetClear(@)]

----------------------------------------------------------------------------
Init ==
  /\ content = [a \in Arrays |-> <<>>]
  /\ inverse = [r \in Records |-> Null]
  /\ link = [r \in Records |-> NoLink]
  /\ linksToSync = [a \in Arrays |-> <<>>]
  /\ initted = [a \in Arrays |-> FALSE]
  /\ type = "Comment"
  /\ store = {"c1", "x1"}
  /\ pc = "idle"
  /\ call = NoCall
  /\ before = content
  /\ cursor = 0
  /\ changing = Null
  /\ trace = <<>>

\* init: the constructor of ManyArray a.
init(a) ==
  /\ pc = "idle"
  /\ ~initted[a]
  /\ initted' = [initted EXCEPT ![a] = TRUE]
  /\ linksToSync' = [linksToSync EXCEPT ![a] = <<>>]
  /\ UNCHANGED <<content, inverse, link, type, store, pc, call, before, cursor,
                 changing, trace>>

\* init, step by step: the state manager is set and the base initializer
\* (this._super) is entered; _initted and _linksToSync are not yet set.
initSuper(a) ==
  /\ pc = "idle"
  /\ ~initted[a]
  /\ call' = [NoCall EXCEPT !.op = "init", !.array = a]
  /\ before' = content
  /\ trace' = <<>>
  /\ pc' = "init"
  /\ UNCHANGED <<content, inverse, link, linksToSync, initted, type, store,
                 cursor, changing>>

\* A mutation triggered by the base initializer: record r is put in at the
\* front, which runs arrayContentWillChange, the splice and
\* arrayContentDidChange of the array under construction.
superInitMutation(r) ==
  /\ pc = "init"
  /\ r \in store
  /\ TypeAccepted(r)
  /\ Len(content[call.array]) < MaxContent
  /\ call' = [call EXCEPT !.added = <<r>>, !.ids = MapClientIds(<<r>>)]
  /\ pc' = "arrayContentWillChange"
  /\ UNCHANGED <<content, inverse, link, linksToSync, initted, type, store,
                 before, cursor, changing, trace>>

\* The base initializer has returned: this._initted = true and
\* this._linksToSync = Ember.OrderedSet.create().
initFinish ==
  /\ pc = "init"
  /\ initted' = [initted EXCEPT ![call.array] = TRUE]
  /\ linksToSync' = [linksToSync EXCEPT ![call.array] = <<>>]
  /\ pc' = "returned"
  /\ UNCHANGED <<content, inverse, link, type, store, call, before, cursor,
                 changing, trace>>

\* replaceContent(index, removed, added): the assertion and the mapping.
replaceContent(a, index, removed, added) ==
  /\ pc = "idle"
  /\ initted[a]
  /\ before' = content
  /\ trace' = <<>>
  /\ IF \A i \in 1..Len(added) : TypeAccepted(added[i])
     THEN /\ call' = [op |-> "replaceContent", array |-> a, index |-> index,
                      removed |-> removed, added |-> added,
                      ids |-> MapClientIds(added), record |-> Null,
              result |-> Undefined, sets |-> 0, observed |-> Null]
          /\ pc' = "arrayContentWillChange"
     ELSE /\ call' = [op |-> "replaceContent", array |-> a, index |-> index,
                      removed |-> removed, added |-> added, ids |-> <<>>,
                      record |-> Null,
              result |-> Undefined, sets |-> 0, observed |-> Null]
          /\ pc' = "raised"
  /\ UNCHANGED <<content, inverse, link, linksToSync, initted, type, store,
                 cursor, changing>>

\* arrayContentWillChange(index, removed, added)
arrayContentWillChange ==
  /\ pc = "arrayContentWillChange"
  /\ LET a == call.array
         res == IF initted[a]
                THEN WillChangeLoop(call.index, call.index + call.removed, a,
                                    link, linksToSync[a])
                ELSE [link |-> link, queue |-> linksToSync[a]]
     IN /\ link' = res.link
        /\ linksToSync' = [linksToSync EXCEPT ![a] = res.queue]
  /\ pc' = "splice"
  /\ trace' = Append(trace, "willChange")
  /\ UNCHANGED <<content, inverse, initted, type, store, call, before, cursor,
                 changing>>

\* this._super(index, removed, added) of replaceContent: the base splice.
superReplaceContent ==
  /\ pc = "splice"
  /\ content' = [content EXCEPT ![call.array] =
                   Splice(@, call.index, call.removed, call.ids)]
  /\ pc' = "arrayContentDidChange"
  /\ trace' = Append(trace, "splice")
  /\ UNCHANGED <<inverse, link, linksToSync, initted, type, store, call, before,
                 cursor, changing>>

\* arrayContentDidChange(index, removed, added): the marking of the added
\* records. Before init has run its lines 41-42 the loop is skipped and
\* _linksToSync is undefined, so this._linksToSync.forEach raises a TypeError.
arrayContentDidChange ==
  /\ pc = "arrayContentDidChange"
  /\ LET a == call.array
         res == IF initted[a]
                THEN DidChangeLoop(call.index, call.index + Len(call.ids), a,
                                   link, linksToSync[a])
                ELSE [link |-> link, queue |-> linksToSync[a]]
     IN /\ link' = res.link
        /\ linksToSync' = [linksToSync EXCEPT ![a] = res.queue]
  /\ pc' = IF initted[call.array] THEN "forEach" ELSE "raised"
  /\ cursor' = 1
  /\ trace' = Append(trace, "didChange")
  /\ UNCHANGED <<content, inverse, initted, type, store, call, before, changing>>

\* One iteration of this._linksToSync.forEach(function(link) { link.sync(); }).
linkSync ==
  /\ pc = "forEach"
  /\ cursor <= Len(linksToSync[call.array])
  /\ LET r == linksToSync[call.array][cursor]
         s == Sync(r, State)
     IN /\ content' = s.content
        /\ inverse' = s.inverse
        /\ link' = s.link
        /\ linksToSync' = s.linksToSync
  /\ cursor' = cursor + 1
  /\ trace' = Append(trace, "sync")
  /\ UNCHANGED <<initted, type, store, pc, call, before, changing>>

\* this._linksToSync.clear(), and the return of the edit; createRecord
\* returns the record it created.
linksToSyncClear ==
  /\ pc = "forEach"
  /\ cursor > Len(linksToSync[call.array])
  /\ linksToSync' = [linksToSync EXCEPT ![call.array] = OrderedSetClear(@)]
  /\ call' = [call EXCEPT !.result = IF call.op = "createRecord"
                                     THEN call.record ELSE Undefined]
  /\ pc' = "returned"
  /\ trace' = Append(trace, "clear")
  /\ UNCHANGED <<content, inverse, link, initted, type, store, before, cursor,
                 changing>>

\* Control is back at the caller (after a return or a raised assertion).
return ==
  /\ pc \in {"returned", "raised"}
  /\ pc' = "idle"
  /\ call' = NoCall
  /\ before' = content
  /\ cursor' = 0
  /\ trace' = <<>>
  /\ UNCHANGED <<content, inverse, link, linksToSync, initted, type, store,
                 changing>>

\* createRecord(hash, transaction): store.createRecord, then pushObject(record),
\* which is replaceContent(length, 0, [record]); r is the record the store
\* creates, of the array's type.
createRecord(a, r) ==
  /\ pc = "idle"
  /\ initted[a]
  /\ type # Undefined
  /\ r \notin store
  /\ constructor[r] = type
  /\ Len(content[a]) < MaxContent
  /\ store' = store \cup {r}
  /\ call' = [op |-> "createRecord", array |-> a,
              index |-> pushObjectIndex(content[a]),
              removed |-> 0, added |-> <<r>>, ids |-> MapClientIds(<<r>>),
              record |-> r, result |-> Undefined, sets |-> 0, observed |-> Null]
  /\ before' = content
  /\ trace' = <<>>
  /\ pc' = "arrayContentWillChange"
  /\ UNCHANGED <<content, inverse, link, linksToSync, initted, type, cursor,
                 changing>>

\* removeFromContent(record), called directly.
callRemoveFromContent(a, r) ==
  /\ pc = "idle"
  /\ initted[a]
  /\ r \in store
  /\ LET s == removeFromContent(State, a, r)
     IN /\ content' = s.content
        /\ inverse' = s.inverse
        /\ link' = s.link
        /\ linksToSync' = s.linksToSync
  /\ call' = [op |-> "removeFromContent", array |-> a, index |-> 0,
              removed |-> 0, added |-> <<>>, ids |-> <<>>, record |-> r,
              result |-> Undefined, sets |-> 0, observed |-> Null]
  /\ before' = content
  /\ trace' = <<>>
  /\ pc' = "returned"
  /\ UNCHANGED <<initted, type, store, cursor, changing>>

\* addToContent(record), called directly. The callers are the belongs-to
\* fields of the records of the array's type, so r is drawn from those; the
\* length guard keeps the content within the model's bound.
callAddToContent(a, r) ==
  /\ pc = "idle"
  /\ initted[a]
  /\ r \in store
  /\ TypeAccepted(r)
  /\ clientId[r] \in Range(content[a]) \/ Len(content[a]) < MaxContent
  /\ LET s == addToContent(State, a, r)
     IN /\ content' = s.content
        /\ inverse' = s.inverse
        /\ link' = s.link
        /\ linksToSync' = s.linksToSync
  /\ call' = [op |-> "addToContent", array |-> a, index |-> 0,
              removed |-> 0, added |-> <<>>, ids |-> <<>>, record |-> r,
              result |-> Undefined, sets |-> 0, observed |-> Null]
  /\ before' = content
  /\ trace' = <<>>
  /\ pc' = "returned"
  /\ UNCHANGED <<initted, type, store, cursor, changing>>

\* An array observer notified by the this._super of arrayContentWillChange
\* (line 111) of a running edit pushes r, one of the records the edit adds,
\* onto the other array b; r comes new to the edited array, so the nested
\* edit leaves the content the running edit is about to splice alone.
arrayWillChangeObserver(b, r) ==
  /\ pc = "splice"
  /\ call.observed = Null
  /\ b # call.array
  /\ initted[b]
  /\ r \in Range(call.added)
  /\ inverse[r] # owner[call.array]
  /\ link[r] = NoLink
  /\ Len(content[b]) < MaxContent
  /\ LET s == pushObject(State, b, r)
     IN /\ content' = s.content
        /\ inverse' = s.inverse
        /\ link' = s.link
        /\ linksToSync' = s.linksToSync
  /\ call' = [call EXCEPT !.observed = r]
  /\ trace' = Append(trace, "arrayWillChange")
  /\ UNCHANGED <<initted, type, store, pc, before, cursor, changing>>

\* An array observer notified by the this._super of arrayContentDidChange
\* (line 144), after the flush, pushes r onto the other array b.
arrayDidChangeObserver(b, r) ==
  /\ pc = "returned"
  /\ call.op \in {"replaceContent", "createRecord"}
  /\ call.observed = Null
  /\ b # call.array
  /\ initted[b]
  /\ r \in Range(call.added)
  /\ Len(content[b]) < MaxContent
  /\ LET s == pushObject(State, b, r)
     IN /\ content' = s.content
        /\ inverse' = s.inverse
        /\ link' = s.link
        /\ linksToSync' = s.linksToSync
  /\ call' = [call EXCEPT !.observed = r]
  /\ trace' = Append(trace, "arrayDidChange")
  /\ UNCHANGED <<initted, type, store, pc, before, cursor, changing>>

\* assignInverse(record), called directly.
callAssignInverse(a, r) ==
  /\ pc = "idle"
  /\ initted[a]
  /\ r \in store
  /\ LET res == assignInverse(State, a, r)
     IN /\ content' = res.state.content
        /\ inverse' = res.state.inverse
        /\ link' = res.state.link
        /\ linksToSync' = res.state.linksToSync
        /\ call' = [op |-> "assignInverse", array |-> a, index |-> 0,
                    removed |-> 0, added |-> <<>>, ids |-> <<>>, record |-> r,
                    result |-> res.result, sets |-> res.sets,
                    observed |-> Null]
  /\ before' = content
  /\ trace' = <<>>
  /\ pc' = "returned"
  /\ UNCHANGED <<initted, type, store, cursor, changing>>

\* removeInverse(record), called directly.
callRemoveInverse(a, r) ==
  /\ pc = "idle"
  /\ initted[a]
  /\ r \in store
  /\ LET res == removeInverse(State, a, r)
     IN /\ content' = res.state.content
        /\ inverse' = res.state.inverse
        /\ link' = res.state.link
        /\ linksToSync' = res.state.linksToSync
        /\ call' = [op |-> "removeInverse", array |-> a, index |-> 0,
                    removed |-> 0, added |-> <<>>, ids |-> <<>>, record |-> r,
                    result |-> res.result, sets |-> res.sets,
                    observed |-> Null]
  /\ before' = content
  /\ trace' = <<>>
  /\ pc' = "returned"
  /\ UNCHANGED <<initted, type, store, cursor, changing>>

----------------------------------------------------------------------------
(* The belongs-to side *)

\* belongsToWillChange: the belongs-to field of r (a record of the arrays'
\* type) is about to be assigned; its link gets the current value, null
\* included, as old parent.
belongsToWillChange(r) ==
  /\ pc = "idle"
  /\ changing = Null
  /\ \A a \in Arrays : initted[a]
  /\ r \in store
  /\ TypeAccepted(r)
  /\ link' = [link EXCEPT ![r].oldParent = inverse[r]]
  /\ changing' = r
  /\ UNCHANGED <<content, inverse, linksToSync, initted, type, store, pc, call,
                 before, cursor, trace>>

\* belongsToDidChange: the field of `changing` now holds p; its link is synced.
belongsToDidChange(p) ==
  /\ pc = "idle"
  /\ changing # Null
  /\ LET r == changing
         a == ManyArrayOf(p)
     IN /\ p # Null => (clientId[r] \in Range(content[a]) \/ Len(content[a]) < MaxContent)
        /\ LET s == Sync(r, [State EXCEPT !.inverse[r] = p,
                                          !.link[r].newParent = p])
           IN /\ content' = s.content
              /\ inverse' = s.inverse
              /\ link' = s.link
              /\ linksToSync' = s.linksToSync
  /\ changing' = Null
  /\ UNCHANGED <<initted, type, store, pc, call, before, cursor, trace>>

----------------------------------------------------------------------------
\* The arguments a caller may pass to replaceContent on ManyArray a.
EditIndices(a) == 0..Len(content[a])
EditRemoved(a, index) == 0..(Len(content[a]) - index)
EditAdded(a, removed) ==
  {added \in SeqsUpTo(store, MaxAdded) :
     Len(content[a]) - removed + Len(added) <= MaxContent}

Edit ==
  \E a \in Arrays : \E index \in EditIndices(a) : \E removed \in EditRemoved(a, index) :
    \E added \in EditAdded(a, removed) : replaceContent(a, index, removed, added)

EditStep ==
  \/ arrayContentWillChange
  \/ superReplaceContent
  \/ arrayContentDidChange
  \/ linkSync
  \/ linksToSyncClear
  \/ return

\* Structural edits only: the public enumerable API and createRecord.
NextEdits ==
  \/ \E a \in Arrays : init(a)
  \/ Edit
  \/ EditStep
  \/ \E a \in Arrays : \E r \in Records : createRecord(a, r)

\* The direct path: removeFromContent and addToContent called from outside.
Direct ==
  \/ \E a \in Arrays : \E r \in Records : callRemoveFromContent(a, r)
  \/ \E a \in Arrays : \E r \in Records : callAddToContent(a, r)

\* Assignments of the belongs-to field of the records the store starts with,
\* in which edits may nest.
BelongsTo ==
  \/ \E r \in Records : belongsToWillChange(r)
  \/ \E p \in Owners \cup {Null} : belongsToDidChange(p)

\* The inverse helpers, called from outside.
Helpers ==
  \/ \E a \in Arrays : \E r \in Records : callAssignInverse(a, r)
  \/ \E a \in Arrays : \E r \in Records : callRemoveInverse(a, r)

\* Array observers that edit the other array within a running edit.
Observers ==
  \/ \E b \in Arrays : \E r \in Records : arrayWillChangeObserver(b, r)
  \/ \E b \in Arrays : \E r \in Records : arrayDidChangeObserver(b, r)

Next == NextEdits \/ Direct

NextNested == NextEdits \/ Observers

\* Construction step by step, with the mutations the base initializer may
\* trigger, and the structural edits of the arrays constructed.
NextInit ==
  \/ \E a \in Arrays : initSuper(a)
  \/ \E r \in Records : superInitMutation(r)
  \/ initFinish
  \/ Edit
  \/ EditStep

NextHelpers == NextEdits \/ Helpers

NextInverse ==
  \/ \E a \in Arrays : init(a)
  \/ Edit
  \/ EditStep
  \/ Direct
  \/ BelongsTo

Spec == Init /\ [][Next]_vars

SpecEdits == Init /\ [][NextEdits]_vars

SpecInverse == Init /\ [][NextInverse]_vars

SpecHelpers == Init /\ [][NextHelpers]_vars

SpecInit == Init /\ [][NextInit]_vars

SpecNested == Init /\ [][NextNested]_vars

\* A started call runs to completion: execution is synchronous.
FairSpec == Spec /\ WF_vars(EditStep)

\* The structural edits alone, under the same fairness.
FairSpecEdits == SpecEdits /\ WF_vars(EditStep)

----------------------------------------------------------------------------
(* Properties *)

\* Record r is a member of ManyArray a.
Member(r, a) == clientId[r] \in Range(content[a])

\* Record r was a member of ManyArray a when the running call began.
MemberBefore(r, a) == clientId[r] \in Range(before[a])

\* The records in the removed range of the running edit.
RemovedRecords ==
  {RecordFor(before[call.array][i]) : i \in (call.index + 1)..(call.index + call.removed)}

\* The records the running edit adds.
AddedRecords == Range(call.added)

\* A structural edit has run to its end and is returning.
EditReturned == pc = "returned" /\ call.op \in {"replaceContent", "createRecord"}

\* The array splice of the running edit, applied to the content at its entry.
ReferenceSplice ==
  SubSeq(before[call.array], 1, call.index) \o call.ids \o
  SubSeq(before[call.array], call.index + call.removed + 1, Len(before[call.array]))

\* C1: whenever no edit is running (before the first and after each one has
\* returned), a record's client id is in the content of an array exactly
\* when the record's belongs-to field is that array's owner.
C1_BidirectionalConsistency ==
  pc \in {"idle", "returned", "raised"} =>
    \A r \in Records : \A a \in Arrays : Member(r, a) <=> inverse[r] = owner[a]

\* C1 witness: an edit that removed one record and added another, a member of
\* the other array until then, has returned.
C1_Witness ==
  /\ EditReturned
  /\ call.removed > 0
  /\ \E r \in AddedRecords : \E a \in Arrays \ {call.array} : MemberBefore(r, a)

\* C3: a record that was a member of array A and that an edit has added to
\* another array B has, when that edit returns, B's owner in its belongs-to
\* field, is a member of B and is no longer a member of A.
C3_MovedToSecondArray ==
  EditReturned =>
    \A r \in AddedRecords : \A a \in Arrays \ {call.array} :
      MemberBefore(r, a) =>
        /\ inverse[r] = owner[call.array]
        /\ Member(r, call.array)
        /\ ~Member(r, a)

\* C3 witness: an edit on R2 that added a record R1 held has returned.
C3_Witness ==
  /\ EditReturned
  /\ call.array = "R2"
  /\ \E r \in AddedRecords : MemberBefore(r, "R1") /\ inverse[r] = "P2"

\* C4: a record in the removed range of an edit that the edit does not add
\* again has a null belongs-to field when the edit returns.
C4_RemovedInverseNull ==
  EditReturned =>
    \A r \in RemovedRecords \ AddedRecords : inverse[r] = Null

\* C4 witness: an edit that removed a record without adding it has returned.
C4_Witness ==
  /\ EditReturned
  /\ \E r \in RemovedRecords \ AddedRecords : ~Member(r, call.array)

\* C5: when an edit returns, the content of its array is the array splice
\* of the content at its entry.
C5_SpliceSemantics ==
  EditReturned => content[call.array] = ReferenceSplice

\* C2: whenever control is at the caller (no call running, or a public
\* mutation has just returned or raised), _linksToSync of every initialized
\* array is empty.
C2_PendingLinksEmpty ==
  pc \in {"idle", "returned", "raised"} =>
    \A a \in Arrays : initted[a] => linksToSync[a] = <<>>

\* C2 witness: an edit that queued and reconciled two links has returned.
C2_Witness ==
  /\ EditReturned
  /\ cursor > 2
  /\ linksToSync[call.array] = <<>>

\* The added list of a replaceContent call holds a record of another type
\* than the configured one.
WrongType(added) ==
  type # Undefined /\ \E i \in 1..Len(added) : constructor[added[i]] # type

\* C6: a replaceContent call whose added list holds a record of the wrong
\* type raises, and changes no content, no link, no _linksToSync and no
\* belongs-to field.
C6_WrongTypeRaises ==
  [][(pc = "idle" /\ call'.op = "replaceContent" /\ WrongType(call'.added)) =>
       (/\ pc' = "raised"
        /\ content' = content
        /\ link' = link
        /\ linksToSync' = linksToSync
        /\ inverse' = inverse)]_vars

\* C6 witness: a call has raised whose added list starts with a record of the
\* right type and goes on with one of the wrong type.
C6_Witness ==
  /\ pc = "raised"
  /\ Len(call.added) = 2
  /\ constructor[call.added[1]] = type
  /\ constructor[call.added[2]] # type

\* C7: a direct addToContent or removeFromContent call returns at once,
\* having changed the content of its own array (by addObject or removeObject
\* of the client id) and nothing else: no link, no _linksToSync, no
\* belongs-to field, no other array, and no step of the edit protocol.
C7_DirectPathFrame ==
  [][(pc = "idle" /\ call'.op \in {"addToContent", "removeFromContent"}) =>
       (/\ pc' = "returned"
        /\ trace' = <<>>
        /\ link' = link
        /\ linksToSync' = linksToSync
        /\ inverse' = inverse
        /\ \A b \in Arrays \ {call'.array} : content'[b] = content[b]
        /\ content'[call'.array] =
             IF call'.op = "addToContent"
             THEN AddObject(content[call'.array], clientId[call'.record])
             ELSE RemoveObject(content[call'.array], clientId[call'.record]))]_vars

\* C7 witness: removeFromContent has taken a record out of the array of its
\* parent, and the record's belongs-to field still names that parent.
C7_Witness ==
  /\ pc = "returned"
  /\ call.op = "removeFromContent"
  /\ MemberBefore(call.record, call.array)
  /\ ~Member(call.record, call.array)
  /\ inverse[call.record] = owner[call.array]

\* The steps of an edit come in the order willChange, splice, didChange, then
\* syncs only.
TraceInOrder ==
  /\ Len(trace) >= 3
  /\ SubSeq(trace, 1, 3) = <<"willChange", "splice", "didChange">>
  /\ \A i \in 4..Len(trace) : trace[i] = "sync"

\* C8: while the links of an edit are reconciled, the hooks and the splice
\* have run in that order, every removed and every added record is in
\* _linksToSync, and the content of the array is the spliced content and stays
\* so until the edit returns (it is the final content at every reconciliation).
C8_SettledBeforeSync ==
  /\ pc = "forEach" =>
       /\ TraceInOrder
       /\ (RemovedRecords \cup AddedRecords) \subseteq Range(linksToSync[call.array])
       /\ content[call.array] = ReferenceSplice
  /\ EditReturned => content[call.array] = ReferenceSplice

\* C9: a started edit returns, and while its links are reconciled no link is
\* added to any _linksToSync: each step reconciles the next link of the set
\* as it stood when the flush began.
C9_EditTerminates ==
  /\ (pc # "idle") ~> (pc = "idle")
  /\ [][(pc = "forEach" /\ pc' = "forEach") =>
          (linksToSync' = linksToSync /\ cursor' = cursor + 1)]_vars

\* C9 witness: an edit whose reconciliation took a record out of another
\* array has returned.
C9_Witness ==
  /\ EditReturned
  /\ cursor > 1
  /\ \E r \in AddedRecords : \E a \in Arrays \ {call.array} :
       MemberBefore(r, a) /\ ~Member(r, a)

\* C10: arrayContentWillChange gives the link of every record in the removed
\* range the owner as old parent only when the link has none, keeps an old
\* parent it has (null included), and sets the new parent to null.
C10_OldParentSetOnce ==
  [][pc = "arrayContentWillChange" =>
       \A i \in (call.index + 1)..(call.index + call.removed) :
         LET r == RecordFor(content[call.array][i])
         IN /\ link'[r].oldParent =
                 IF link[r].oldParent = Undefined THEN owner[call.array]
                 ELSE link[r].oldParent
            /\ link'[r].newParent = Null]_vars

\* C10 witness: arrayContentWillChange has run over a record whose link had
\* null as its old parent, set by the belongs-to side, and still has it.
C10_Witness ==
  /\ pc = "splice"
  /\ \E r \in RemovedRecords :
       link[r].oldParent = Null /\ link[r].newParent = Null

\* The number of times record r occurs in the sequence q.
Occurrences(q, r) == Cardinality({i \in 1..Len(q) : q[i] = r})

\* The links forEach has reconciled so far in the running edit.
Reconciled == SubSeq(linksToSync[call.array], 1, cursor - 1)

\* C11: during the flush of an edit, _linksToSync holds exactly the records
\* the edit removed or added, each once, and forEach reconciles each of them
\* once: when it is through, every one has been reconciled exactly once.
C11_ReconciledExactlyOnce ==
  pc = "forEach" =>
    /\ Range(linksToSync[call.array]) = RemovedRecords \cup AddedRecords
    /\ \A r \in RemovedRecords \cup AddedRecords :
         /\ Occurrences(linksToSync[call.array], r) = 1
         /\ Occurrences(Reconciled, r) <= 1
         /\ cursor > Len(linksToSync[call.array]) => Occurrences(Reconciled, r) = 1
    /\ Len(SelectSeq(trace, LAMBDA e : e = "sync")) = Len(Reconciled)

\* C11 witness: forEach is through the links of an edit that removed two
\* records and added one of them again.
C11_Witness ==
  /\ pc = "forEach"
  /\ cursor > Len(linksToSync[call.array])
  /\ Cardinality(RemovedRecords) = 2
  /\ RemovedRecords \cap AddedRecords # {}

----------------------------------------------------------------------------
(* C14, C15: the inverse helpers *)

\* A direct call of the helper named op has returned.
HelperReturned(op) == pc = "returned" /\ call.op = op

\* The step is a call of removeInverse(r) on array a.
RemoveInverseStep(a, r) ==
  /\ pc = "idle"
  /\ pc' = "returned"
  /\ call'.op = "removeInverse"
  /\ call'.array = a
  /\ call'.record = r

\* C14: removeInverse(child) sets the child's inverse field to null exactly
\* when an inverse field is declared and its value equals the array's owner;
\* otherwise it writes nothing; in both cases it returns, nothing else changes.
C14_RemoveInverseGuarded ==
  [][\A a \in Arrays : \A r \in Records :
       RemoveInverseStep(a, r) =>
         /\ (call'.sets = 1) <=>
              (inverseNameFor(r) # Null /\ inverse[r] = owner[a])
         /\ inverse' = IF inverseNameFor(r) # Null /\ inverse[r] = owner[a]
                       THEN [inverse EXCEPT ![r] = Null] ELSE inverse
         /\ UNCHANGED <<content, link, linksToSync>>]_vars

\* C14 witness: removeInverse returned without a write for a child whose
\* inverse field names another parent.
C14_Witness ==
  /\ HelperReturned("removeInverse")
  /\ call.sets = 0
  /\ inverse[call.record] \notin {Null, owner[call.array]}

\* The step is a call of assignInverse(r) on array a.
AssignInverseStep(a, r) ==
  /\ pc = "idle"
  /\ pc' = "returned"
  /\ call'.op = "assignInverse"
  /\ call'.array = a
  /\ call'.record = r

\* C15: with an inverse field declared, assignInverse(child) leaves the field
\* equal to the owner, returns the value it had before, and writes only when
\* that value differed from the owner; with none declared it changes nothing.
C15_AssignInverse ==
  [][\A a \in Arrays : \A r \in Records :
       AssignInverseStep(a, r) =>
         /\ inverseNameFor(r) # Null =>
              /\ inverse'[r] = owner[a]
              /\ call'.result = inverse[r]
              /\ (call'.sets = 1) <=> (inverse[r] # owner[a])
              /\ \A q \in Records \ {r} : inverse'[q] = inverse[q]
         /\ inverseNameFor(r) = Null =>
              /\ inverse' = inverse
              /\ call'.sets = 0
         /\ UNCHANGED <<content, link, linksToSync>>]_vars

\* C15 witness: assignInverse returned another parent as the previous value
\* and the field now names the owner.
C15_Witness ==
  /\ HelperReturned("assignInverse")
  /\ call.result \in Owners \ {owner[call.array]}
  /\ call.sets = 1
  /\ inverse[call.record] = owner[call.array]

----------------------------------------------------------------------------
(* C16: createRecord *)

\* C16: when createRecord returns, the created record's id is the last
\* element of content and the earlier elements are as before, its inverse is
\* the owner, _linksToSync is empty and the value returned is the record.
C16_CreateRecordAppends ==
  (pc = "returned" /\ call.op = "createRecord") =>
    /\ content[call.array] = Append(before[call.array], clientId[call.record])
    /\ inverse[call.record] = owner[call.array]
    /\ linksToSync[call.array] = <<>>
    /\ call.result = call.record

\* C16 witness: createRecord returned on an array that already held a record.
C16_Witness ==
  /\ pc = "returned"
  /\ call.op = "createRecord"
  /\ Len(before[call.array]) >= 1

----------------------------------------------------------------------------
(* C17: unique identifiers *)

\* C17: between operations no client id occurs more than once in the content
\* of one array.
C17_ContentUnique ==
  pc \in {"idle", "returned"} =>
    \A a \in Arrays : \A r \in Records : Occurrences(content[a], clientId[r]) <= 1

----------------------------------------------------------------------------
(* C19: a record removed and inserted again by one edit *)

\* The records the running edit both removes and adds.
Reinserted == RemovedRecords \cap AddedRecords

\* C19: a record that one edit takes out of the array and puts in again has,
\* when the flush begins, one queued link whose newParent is the owner; when
\* the edit returns it is in content and its inverse is the owner.
C19_ReinsertedStays ==
  /\ (pc = "forEach" /\ cursor = 1) =>
       \A r \in Reinserted :
         /\ Occurrences(linksToSync[call.array], r) = 1
         /\ link[r].newParent = owner[call.array]
  /\ EditReturned =>
       \A r \in Reinserted :
         /\ Member(r, call.array)
         /\ inverse[r] = owner[call.array]

\* C19 witness: an edit that replaced the first of two records by itself has
\* returned.
C19_Witness ==
  /\ EditReturned
  /\ Reinserted # {}
  /\ Len(before[call.array]) = 2
  /\ call.index = 0
  /\ call.removed = 1

----------------------------------------------------------------------------
(* C20: the direct path *)

\* C20: in every state, addToContent of a member and removeFromContent of a
\* non-member change nothing, and addToContent then removeFromContent of a
\* non-member gives the state back; the direct calls that ran show the same.
C20_DirectPathIdempotent ==
  /\ \A a \in Arrays : \A r \in Records :
       /\ Member(r, a) => addToContent(State, a, r) = State
       /\ ~Member(r, a) =>
            /\ removeFromContent(State, a, r) = State
            /\ removeFromContent(addToContent(State, a, r), a, r) = State
  /\ (pc = "returned" /\ call.op = "addToContent"
        /\ MemberBefore(call.record, call.array)) => content = before
  /\ (pc = "returned" /\ call.op = "removeFromContent"
        /\ ~MemberBefore(call.record, call.array)) => content = before

\* C20 witness: addToContent returned for a record that was the first of two
\* members.
C20_Witness ==
  /\ pc = "returned"
  /\ call.op = "addToContent"
  /\ Len(before[call.array]) = 2
  /\ before[call.array][1] = clientId[call.record]
  /\ content = before

----------------------------------------------------------------------------
(* C18: the order of the flush *)

\* Every order in which the links of the set q can be visited.
Orders(q) ==
  {p \in [1..Len(q) -> Range(q)] : \A r \in Range(q) : Occurrences(p, r) = 1}

\* C18: when the flush of an edit begins, reconciling the queued links in any
\* order gives the same content of every array and the same inverse of every
\* record as reconciling them in the order of the set.
C18_FlushOrderIndependent ==
  (pc = "forEach" /\ cursor = 1) =>
    \A p \in Orders(linksToSync[call.array]) :
      /\ forEach(p, State).content = forEach(linksToSync[call.array], State).content
      /\ forEach(p, State).inverse = forEach(linksToSync[call.array], State).inverse

\* C18 witness: a flush begins with the links of two records, one taken out
\* and one that comes over from the other array.
C18_Witness ==
  /\ pc = "forEach"
  /\ cursor = 1
  /\ Len(linksToSync[call.array]) = 2
  /\ RemovedRecords \ AddedRecords # {}
  /\ \E r \in AddedRecords : \E a \in Arrays \ {call.array} : Member(r, a)

----------------------------------------------------------------------------
(* C13: the hooks during construction *)

\* A hook of an array under construction is about to run.
HookBeforeInit ==
  /\ pc \in {"arrayContentWillChange", "arrayContentDidChange"}
  /\ ~initted[call.array]

\* C13: a hook that runs while _initted is not yet set touches no link,
\* queues nothing, reconciles nothing and does not fail.
C13_HooksIgnoredBeforeInit ==
  [][HookBeforeInit =>
       /\ UNCHANGED <<link, linksToSync, inverse>>
       /\ pc' # "raised"]_vars

----------------------------------------------------------------------------
(* C12: the most recent assignment of newParent wins *)

\* The array whose arrayContentDidChange ran last in the running edit: the
\* other array when an observer of line 144 edited it, else the edited array.
ProcessedLast ==
  IF "arrayDidChange" \in Range(trace)
  THEN CHOOSE b \in Arrays : b # call.array
  ELSE call.array

====
